---- MODULE Spec2Model ----
(***************************************************************************)
(* Waste-management map: the Home page (src/src/app/page.tsx), the upload  *)
(* panel (src/src/components/UploadComponent.tsx), the map                 *)
(* (src/src/components/MapComponent.tsx) and the backing store they talk   *)
(* to, as one state machine.  JavaScript runs each handler to its next     *)
(* await, so every action below is one such run-to-completion step.        *)
(***************************************************************************)
EXTENDS Integers, Sequences, FiniteSets, TLC

\* ------------------------------------------------------------------ bounds
\* rows the reports table may hold in a run (initial rows included)
MaxRows == 2
\* handleUpload executions started in a run
MaxUploads == 2
\* clicks on Try Again in a run
MaxRetries == 2

\* what the environment does in one run, at most: rows held by the table,
\* uploads started, clicks on Try Again.  A run has one of these quotas: many
\* rows with one upload and one retry, or many uploads and retries on a table
\* that stays empty (every insert is rejected).
Quotas ==
  { [rows |-> MaxRows, uploads |-> 1, retries |-> 1],
    [rows |-> 0, uploads |-> MaxUploads, retries |-> MaxRetries] }

\* ------------------------------------------------------------- value sets
\* UploadComponent.tsx:37  5 * 1024 * 1024
MaxFileSize == 5242880

ImagePng == <<"i","m","a","g","e","/","p","n","g">>
TextPlain == <<"t","e","x","t","/","p","l","a","i","n">>
\* a type that contains "image/" but does not start with it
SvgInText == <<"x","/","i","m","a","g","e","/">>

\* the File objects the user can pick: [type, size]
Files ==
  { [type |-> ImagePng,  size |-> 1024],
    [type |-> ImagePng,  size |-> MaxFileSize],
    [type |-> ImagePng,  size |-> MaxFileSize + 1],
    [type |-> TextPlain, size |-> 1024],
    [type |-> SvgInText, size |-> 1024] }

\* useState<File | null>(null): the null value, of the same shape as a File
NoFile == [type |-> <<>>, size |-> -1]

\* String.prototype.startsWith
StartsWith(s, p) == Len(s) >= Len(p) /\ SubSeq(s, 1, Len(p)) = p

\* the positions the platform can report: [latitude, longitude]
Coords == { [latitude |-> 16, longitude |-> 80] }
NoCoords == [latitude |-> 0, longitude |-> 0]

\* the messages the backend can reject a call with
BackendMsgs == { "timeout", "row violates policy" }

\* the error of a call the backend accepted: null
NoError == ""

\* what the backend can answer a call with
Answers == {NoError} \cup BackendMsgs

\* useState<WasteReport | null>(null): the null value, of the shape of a row
NoReport == [id |-> 0, latitude |-> 0, longitude |-> 0, photo_url |-> <<>>, created_at |-> 0]

RECURSIVE Reverse(_)
Reverse(s) == IF s = <<>> THEN <<>> ELSE Append(Reverse(Tail(s)), Head(s))

Range(s) == { s[i] : i \in 1..Len(s) }

\* ------------------------------------------------------------ the backend
\* a row of table reports: id and created_at are filled by the server
Row(n, c, url) ==
  [id |-> n, latitude |-> c.latitude, longitude |-> c.longitude,
   photo_url |-> url, created_at |-> n]

\* photo_url of a row another client inserted
OtherUrl == <<"public", "photos", 0>>

\* const filePath = `photos/${fileName}`: the name is fresh for every call
FilePath(nonce) == <<"photos", nonce>>

\* supabase.storage.from('waste-photos').getPublicUrl(filePath).data.publicUrl
PublicUrl(path) == <<"public">> \o path

\* the row of rows with the greatest created_at
Newest(rows) == CHOOSE r \in rows : \A q \in rows : q.created_at <= r.created_at

RECURSIVE OrderDesc(_)
\* .select('*').order('created_at', { ascending: false })
OrderDesc(rows) ==
  IF rows = {} THEN <<>>
  ELSE <<Newest(rows)>> \o OrderDesc(rows \ {Newest(rows)})

\* ------------------------------------------------------- Location Provider
PERMISSION_DENIED == 1
POSITION_UNAVAILABLE == 2
TIMEOUT == 3

\* what the platform does with one getCurrentPosition request
GeoOutcomes ==
  { [kind |-> "position", coords |-> c, code |-> 0] : c \in Coords } \cup
  { [kind |-> "error", coords |-> NoCoords, code |-> k] : k \in 0..3 }

\* mutant of PromiseCalls: no return after the reject of line 105, so that the
\* request is made and answered as well
PromiseCalls_NoReturn(supported, outcome) ==
  (IF ~supported
     THEN <<[ok |-> FALSE, coords |-> NoCoords,
             message |-> "Geolocation is not supported by this browser"]>>
     ELSE <<>>) \o
  <<[ok |-> outcome.kind = "position", coords |-> outcome.coords,
     message |-> "An unknown error occurred while retrieving location"]>>

\* MapComponent.tsx:102-133  the executor of the promise: the calls it makes to
\* resolve (ok) and reject, in order, given navigator.geolocation (supported)
\* and the platform's answer to the request
PromiseCalls(supported, outcome) ==
  IF ~supported
    THEN <<[ok |-> FALSE, coords |-> NoCoords,
            message |-> "Geolocation is not supported by this browser"]>>
  ELSE IF outcome.kind = "position"
    THEN <<[ok |-> TRUE, coords |-> outcome.coords, message |-> ""]>>
  ELSE <<[ok |-> FALSE, coords |-> NoCoords,
          message |-> CASE outcome.code = PERMISSION_DENIED -> "Location access denied by user"
                        [] outcome.code = POSITION_UNAVAILABLE -> "Location information is unavailable"
                        [] outcome.code = TIMEOUT -> "Location request timed out"
                        [] OTHER -> "An unknown error occurred while retrieving location"]>>

\* MapComponent.tsx:110  the calls of navigator.geolocation.getCurrentPosition
\* one call of getCurrentLocation makes
PositionRequests(supported) == IF supported THEN 1 ELSE 0

\* getCurrentLocation(): how the promise settles, given navigator.geolocation
\* (supported) and the platform's answer: a promise takes the first call of
\* resolve or reject and ignores the later ones
getCurrentLocation(supported, outcome) == Head(PromiseCalls(supported, outcome))

\* ---------------------------------------------------------- MapComponent
\* longitude and latitude in 1e-5 degrees
INITIAL_VIEW_STATE == [longitude |-> 8045559, latitude |-> 1629044, zoom |-> 14]

\* the cameras a gesture can lead to
ViewStates == { INITIAL_VIEW_STATE, [longitude |-> 8045600, latitude |-> 1629000, zoom |-> 12] }

\* ------------------------------------------------------------------ state
VARIABLES
  \* Home (page.tsx:20-24)
  reports, selectedReport, isModalOpen, isLoading, error,
  \* Home's effect has run: the channel is subscribed (page.tsx:55-84)
  subscribed,
  \* list queries in flight: [fid, origin, phase, data, error]
  fetches, nRetries,
  \* the backend: table reports in commit order, bucket waste-photos, and the
  \* insert events committed but not yet handed to the subscription handler
  table, blobs, channel,
  \* the mounted UploadComponent (UploadComponent.tsx:18-21) and its generation
  isUploading, uploadStatus, selectedFile, previewUrl, uploadGen,
  \* handleUpload executions in flight: [xid, gen, pc, file, location, calls, dbError]
  execs, nUploads,
  \* setTimeout callbacks not yet run: <<execution, generation of its component>>
  timers,
  \* the mounted MapComponent (MapComponent.tsx:30)
  viewState,
  \* history: the events handed to the handler, in order; the mount fetch's result
  delivered, initialList, mountFetch,
  \* the quota of this run
  quota

homeVars == <<reports, selectedReport, isModalOpen, isLoading, error, subscribed>>
fetchVars == <<fetches, nRetries>>
storeVars == <<table, blobs, channel>>
uploadVars == <<isUploading, uploadStatus, selectedFile, previewUrl, uploadGen>>
execVars == <<execs, nUploads, timers>>
histVars == <<delivered, initialList, mountFetch>>
vars == <<homeVars, fetchVars, storeVars, uploadVars, execVars, viewState, histVars,
          quota>>

\* the rows other clients committed before the page was opened
InitialTables == { <<>>, <<Row(1, CHOOSE c \in Coords : TRUE, OtherUrl)>> }

\* the state after construction, in a run with quota q
InitWith(q) ==
  /\ reports = <<>>
  /\ selectedReport = NoReport
  /\ isModalOpen = FALSE
  /\ isLoading = TRUE
  /\ error = ""
  /\ subscribed = FALSE
  /\ fetches = {}
  /\ nRetries = 0
  /\ quota = q
  /\ table \in { t \in InitialTables : Len(t) <= q.rows }
  /\ blobs = {}
  /\ channel = <<>>
  /\ isUploading = FALSE
  /\ uploadStatus = <<>>
  /\ selectedFile = NoFile
  /\ previewUrl = NoFile
  /\ uploadGen = 0
  /\ execs = {}
  /\ nUploads = 0
  /\ timers = {}
  /\ viewState = INITIAL_VIEW_STATE
  /\ delivered = <<>>
  /\ initialList = <<>>
  /\ mountFetch = "none"

Init == \E q \in Quotas : InitWith(q)

\* ------------------------------------------------------------- Home render
\* page.tsx:112-193: the loading branch, the error branch, else the main view
\* with MapComponent, UploadComponent and ReportModal
MainView(l, e) == ~l /\ e = ""

Mounted == MainView(isLoading, error)

\* Home renders with isLoading = l and error = e.  The children of the main view
\* keep their state (here iu, us, sf, pv, vs: what their own handlers just set)
\* while the main view stays; they are unmounted by the loading and the error
\* branch, and mounted anew, with their initial state, when it comes back.
Render(l, e, iu, us, sf, pv, vs) ==
  /\ isLoading' = l
  /\ error' = e
  /\ IF MainView(l, e) /\ Mounted
       THEN /\ isUploading' = iu
            /\ uploadStatus' = us
            /\ selectedFile' = sf
            /\ previewUrl' = pv
            /\ viewState' = vs
            /\ uploadGen' = uploadGen
       ELSE /\ isUploading' = FALSE
            /\ uploadStatus' = <<>>
            /\ selectedFile' = NoFile
            /\ previewUrl' = NoFile
            /\ viewState' = INITIAL_VIEW_STATE
            /\ uploadGen' = IF MainView(l, e) THEN uploadGen + 1 ELSE uploadGen

\* a render of Home in which no child changed its own state
RenderHome(l, e) ==
  Render(l, e, isUploading, uploadStatus, selectedFile, previewUrl, viewState)

\* ------------------------------------------------------------ fetchReports
\* page.tsx:33-36: the query is sent
\* fid tells the requests in flight apart: the least number none of them has
NewFetch(origin) ==
  [fid |-> CHOOSE n \in 1..(Cardinality(fetches) + 1) :
             /\ \A f \in fetches : f.fid # n
             /\ \A k \in 1..(n - 1) : \E f \in fetches : f.fid = k,
   origin |-> origin, phase |-> "sent", data |-> <<>>, error |-> NoError]

IssueFetch(origin) == fetches' = fetches \cup {NewFetch(origin)}

\* page.tsx:42  setReports(data || [])
FetchedReports(currentReports, data) == data

\* page.tsx:38  if (error)
FetchThrows(err) == err # NoError

\* page.tsx:45  setError('Failed to load reports'), whatever was thrown
FetchErrorText(err) == "Failed to load reports"

\* page.tsx:72-75  the updater of the subscription's insert handler
InsertUpdater(currentReports, payloadNew) == <<payloadNew>> \o currentReports

\* page.tsx:55-78  the effect of Home: the first fetch, and the subscription
Mount ==
  /\ ~subscribed
  /\ subscribed' = TRUE
  /\ IssueFetch("mount")
  /\ mountFetch' = "pending"
  /\ RenderHome(isLoading, "")
  /\ UNCHANGED <<reports, selectedReport, isModalOpen, nRetries, storeVars,
                 execVars, delivered, initialList, quota>>

\* the backend answers a list query: the rows by created_at descending, or an error
FetchServe(f, err) ==
  /\ f \in fetches /\ f.phase = "sent"
  /\ fetches' = (fetches \ {f}) \cup
       {[f EXCEPT !.phase = "served",
                  !.data = IF err = NoError THEN OrderDesc(Range(table)) ELSE <<>>,
                  !.error = err]}
  /\ UNCHANGED <<homeVars, nRetries, storeVars, uploadVars, execVars,
                 viewState, histVars,
                 quota>>

\* page.tsx:38-48  the continuation of fetchReports after the await
FetchResolve(f) ==
  /\ f \in fetches /\ f.phase = "served"
  /\ fetches' = fetches \ {f}
  /\ IF FetchThrows(f.error)
       THEN /\ reports' = reports
            /\ RenderHome(FALSE, FetchErrorText(f.error))
       ELSE /\ reports' = FetchedReports(reports, f.data)
            /\ RenderHome(FALSE, error)
  /\ IF f.origin = "mount"
       THEN /\ mountFetch' = IF FetchThrows(f.error) THEN "failed" ELSE "applied"
            /\ initialList' = IF FetchThrows(f.error) THEN initialList ELSE f.data
       ELSE UNCHANGED <<mountFetch, initialList>>
  /\ UNCHANGED <<selectedReport, isModalOpen, subscribed, nRetries,
                 storeVars, execVars, delivered,
                 quota>>

\* page.tsx:69-76  the subscription handler runs for the oldest pending event
InsertEvent ==
  /\ channel # <<>>
  /\ reports' = InsertUpdater(reports, Head(channel))
  /\ channel' = Tail(channel)
  /\ delivered' = Append(delivered, Head(channel))
  /\ UNCHANGED <<selectedReport, isModalOpen, isLoading, error, subscribed,
                 fetchVars, table, blobs, uploadVars, execVars, viewState,
                 initialList, mountFetch,
                 quota>>

\* the backend commits a row and notifies the subscribed channel
Commit(c, url) ==
  /\ table' = Append(table, Row(Len(table) + 1, c, url))
  /\ channel' = IF subscribed THEN Append(channel, Row(Len(table) + 1, c, url))
                ELSE channel

\* another client inserts a row
ExternalInsert(c) ==
  /\ Len(table) < quota.rows
  /\ Commit(c, OtherUrl)
  /\ UNCHANGED <<homeVars, fetchVars, blobs, uploadVars, execVars, viewState,
                 histVars,
                 quota>>

\* page.tsx:130-135  Try Again: onClick={fetchReports}
TryAgain ==
  /\ ~isLoading /\ error # ""
  /\ nRetries < quota.retries
  /\ nRetries' = nRetries + 1
  /\ IssueFetch("retry")
  /\ RenderHome(isLoading, "")
  /\ UNCHANGED <<reports, selectedReport, isModalOpen, subscribed, storeVars,
                 execVars, histVars,
                 quota>>

\* ------------------------------------------------- MapComponent and modal
\* mutant of OnClick: info.object is passed on without the test
OnClick_NoGuard(object) == <<object>>

\* MapComponent.tsx:54-59  onClick: the calls it makes to onReportClick, given
\* info.object (NoReport: the click hit no object)
OnClick(object) == IF object # NoReport THEN <<object>> ELSE <<>>

\* what a click on the layer can hit: an element of its data, or nothing
Pickable(data) == Range(data) \cup {NoReport}

\* mutant of handleReportClick: the Report is stored, the modal is not opened
handleReportClick_NoOpen(report) ==
  /\ selectedReport' = report
  /\ isModalOpen' = isModalOpen

\* page.tsx:98-101  handleReportClick
handleReportClick(report) ==
  /\ selectedReport' = report
  /\ isModalOpen' = TRUE

\* a click on the heatmap layer of the mounted map
LayerClick(object) ==
  /\ Mounted
  /\ object \in Pickable(reports)
  /\ IF OnClick(object) # <<>>
       THEN handleReportClick(OnClick(object)[1])
       ELSE UNCHANGED <<selectedReport, isModalOpen>>
  /\ UNCHANGED <<reports, isLoading, error, subscribed, fetchVars, storeVars,
                 uploadVars, execVars, viewState, histVars,
                 quota>>

\* ReportModal.tsx:17  the modal is rendered
ModalShown == Mounted /\ isModalOpen /\ selectedReport # NoReport

\* mutant of CloseModal: closing the modal also resets the collection
CloseModal_ClearsReports ==
  /\ ModalShown
  /\ isModalOpen' = FALSE
  /\ selectedReport' = NoReport
  /\ reports' = <<>>
  /\ UNCHANGED <<isLoading, error, subscribed, fetchVars, storeVars,
                 uploadVars, execVars, viewState, histVars,
                 quota>>

\* page.tsx:106-109  closeModal, from the modal's close controls
CloseModal ==
  /\ ModalShown
  /\ isModalOpen' = FALSE
  /\ selectedReport' = NoReport
  /\ UNCHANGED <<reports, isLoading, error, subscribed, fetchVars, storeVars,
                 uploadVars, execVars, viewState, histVars,
                 quota>>

\* MapComponent.tsx:68  onViewStateChange: a pan or zoom gesture
ViewStateChange(v) ==
  /\ Mounted
  /\ v # viewState
  /\ viewState' = v
  /\ UNCHANGED <<homeVars, fetchVars, storeVars, uploadVars, execVars,
                 histVars,
                 quota>>

\* -------------------------------------------------------- UploadComponent
\* mutant of NotImage: includes('image/') in place of startsWith('image/')
NotImage_Includes(file) ==
  ~\E i \in 1..Len(file.type) :
     /\ i + 5 <= Len(file.type)
     /\ SubSeq(file.type, i, i + 5) = <<"i","m","a","g","e","/">>

\* UploadComponent.tsx:31  !file.type.startsWith('image/')
NotImage(file) == ~StartsWith(file.type, <<"i","m","a","g","e","/">>)

\* UploadComponent.tsx:37  file.size > 5 * 1024 * 1024
TooLarge(file) == file.size > MaxFileSize

\* UploadComponent.tsx:27-49  handleFileSelect: the state it leaves, given
\* event.target.files?.[0] (NoFile: the dialog was cancelled)
FileSelectResult(file) ==
  IF file = NoFile
    THEN [uploadStatus |-> uploadStatus, selectedFile |-> selectedFile,
          previewUrl |-> previewUrl]
  ELSE IF NotImage(file)
    THEN [uploadStatus |-> <<"Please select an image file">>,
          selectedFile |-> selectedFile, previewUrl |-> previewUrl]
  ELSE IF TooLarge(file)
    THEN [uploadStatus |-> <<"File size must be less than 5MB">>,
          selectedFile |-> selectedFile, previewUrl |-> previewUrl]
  ELSE [uploadStatus |-> <<>>, selectedFile |-> file, previewUrl |-> file]

\* the file input (disabled while isUploading) reports a change
handleFileSelect(file) ==
  /\ Mounted /\ ~isUploading
  /\ uploadStatus' = FileSelectResult(file).uploadStatus
  /\ selectedFile' = FileSelectResult(file).selectedFile
  /\ previewUrl' = FileSelectResult(file).previewUrl
  /\ UNCHANGED <<homeVars, fetchVars, storeVars, isUploading, uploadGen,
                 execVars, viewState, histVars,
                 quota>>

\* UploadComponent.tsx:128-135  clearSelection (the control is shown while a
\* file is selected and disabled while isUploading)
clearSelection ==
  /\ Mounted /\ selectedFile # NoFile /\ ~isUploading
  /\ selectedFile' = NoFile
  /\ previewUrl' = NoFile
  /\ uploadStatus' = <<>>
  /\ UNCHANGED <<homeVars, fetchVars, storeVars, isUploading, uploadGen,
                 execVars, viewState, histVars,
                 quota>>

\* the submit control: disabled={!selectedFile || isUploading}
SubmitEnabled == Mounted /\ selectedFile # NoFile /\ ~isUploading

\* a setState of execution x reaches the component that started it
Alive(x) == Mounted /\ x.gen = uploadGen

\* the steps of handleUpload, in the order the code issues them
StepOrder == <<"location", "upload", "publicUrl", "insert">>

\* UploadComponent.tsx:65-66  after getCurrentLocation settled with res
AfterLocation(res) == IF res.ok THEN "storage" ELSE "done"

\* UploadComponent.tsx:77  if (uploadError)
UploadThrows(uploadError) == uploadError # NoError

\* mutant of DbThrows: the result of the insert is not looked at
DbThrows_Never(dbError) == FALSE

\* UploadComponent.tsx:99  if (dbError)
DbThrows(dbError) == dbError # NoError

\* UploadComponent.tsx:78  throw new Error(`Upload failed: ${uploadError.message}`)
UploadFailedText(m) == <<"Upload failed: ", m>>

\* UploadComponent.tsx:100  throw new Error(`Database error: ${dbError.message}`)
DatabaseErrorText(m) == <<"Database error: ", m>>

\* execution x goes on as y
Step(x, y) == execs' = (execs \ {x}) \cup {y}

\* execution x has returned
Finish(x) == execs' = execs \ {x}

\* UploadComponent.tsx:54-62  handleUpload, up to its first await
handleUpload ==
  /\ SubmitEnabled
  /\ nUploads < quota.uploads
  /\ IF selectedFile = NoFile
       THEN /\ uploadStatus' = <<"Please select a photo first">>
            /\ UNCHANGED <<isUploading, execs, nUploads>>
       ELSE /\ isUploading' = TRUE
            /\ uploadStatus' = <<"Getting your location...">>
            /\ nUploads' = nUploads + 1
            /\ execs' = execs \cup
                 {[xid |-> nUploads + 1, gen |-> uploadGen, pc |-> "location",
                   file |-> selectedFile, location |-> NoCoords,
                   calls |-> <<"location">>, dbError |-> NoError]}
  /\ UNCHANGED <<homeVars, fetchVars, storeVars, selectedFile, previewUrl,
                 uploadGen, timers, viewState, histVars,
                 quota>>

\* mutant of Caught: the catch block without the finally block
Caught_NoFinally(x, text) ==
  /\ isUploading' = isUploading
  /\ uploadStatus' = IF Alive(x) THEN text ELSE uploadStatus
  /\ UNCHANGED <<selectedFile, previewUrl, uploadGen>>

\* UploadComponent.tsx:117-122  catch and finally, for the component of x
Caught(x, text) ==
  /\ isUploading' = IF Alive(x) THEN FALSE ELSE isUploading
  /\ uploadStatus' = IF Alive(x) THEN text ELSE uploadStatus
  /\ UNCHANGED <<selectedFile, previewUrl, uploadGen>>

\* UploadComponent.tsx:65-75  getCurrentLocation settles; on a fix the photo
\* upload is sent
LocationSettle(x, supported, outcome) ==
  /\ x \in execs /\ x.pc = "location"
  /\ LET res == getCurrentLocation(supported, outcome) IN
       IF AfterLocation(res) = "storage"
         THEN /\ Step(x, [x EXCEPT !.pc = "storage", !.location = res.coords,
                                   !.calls = Append(x.calls, "upload")])
              /\ uploadStatus' = IF Alive(x) THEN <<"Uploading photo...">>
                                 ELSE uploadStatus
              /\ UNCHANGED <<isUploading, selectedFile, previewUrl, uploadGen>>
         ELSE /\ Finish(x)
              /\ Caught(x, <<res.message>>)
  /\ UNCHANGED <<homeVars, fetchVars, storeVars, nUploads, timers, viewState,
                 histVars,
                 quota>>

\* UploadComponent.tsx:73-97  the storage upload settles with uploadError (NoError:
\* the photo is stored); unless that throws, the public URL is resolved and the
\* insert is sent
StorageSettle(x, uploadError) ==
  /\ x \in execs /\ x.pc = "storage"
  /\ blobs' = IF uploadError = NoError
                THEN blobs \cup {[path |-> FilePath(x.xid), file |-> x.file]}
              ELSE blobs
  /\ IF UploadThrows(uploadError)
       THEN /\ Finish(x)
            /\ Caught(x, UploadFailedText(uploadError))
       ELSE /\ Step(x, [x EXCEPT !.pc = "insert",
                                 !.calls = x.calls \o <<"publicUrl", "insert">>])
            /\ uploadStatus' = IF Alive(x) THEN <<"Saving report...">>
                               ELSE uploadStatus
            /\ UNCHANGED <<isUploading, selectedFile, previewUrl, uploadGen>>
  /\ UNCHANGED <<homeVars, fetchVars, table, channel, nUploads, timers,
                 viewState, histVars,
                 quota>>

\* the backend handles the insert of x: the row is committed (NoError), or the
\* insert is rejected with dbError
InsertServe(x, dbError) ==
  /\ x \in execs /\ x.pc = "insert"
  /\ IF dbError = NoError
       THEN /\ Len(table) < quota.rows
            /\ Commit(x.location, PublicUrl(FilePath(x.xid)))
       ELSE UNCHANGED <<table, channel>>
  /\ Step(x, [x EXCEPT !.pc = "answered", !.dbError = dbError])
  /\ UNCHANGED <<homeVars, fetchVars, blobs, uploadVars, nUploads, timers,
                 viewState, histVars,
                 quota>>

\* UploadComponent.tsx:99-122  the continuation after the insert: unless dbError
\* throws, the form is cleared, onUploadSuccess (page.tsx:90-92: fetchReports) is
\* called and the timer is set; the catch block runs otherwise
InsertSettle(x) ==
  /\ x \in execs /\ x.pc = "answered"
  /\ Finish(x)
  /\ IF DbThrows(x.dbError)
       THEN /\ Caught(x, DatabaseErrorText(x.dbError))
            /\ UNCHANGED <<isLoading, error, fetches, timers, viewState>>
       ELSE /\ IssueFetch("refresh")
            /\ timers' = timers \cup {<<x.xid, x.gen>>}
            /\ IF Alive(x)
                 THEN Render(isLoading, "", FALSE,
                             <<"Report submitted successfully!">>, NoFile, NoFile,
                             viewState)
                 ELSE RenderHome(isLoading, "")
  /\ UNCHANGED <<reports, selectedReport, isModalOpen, subscribed, nRetries,
                 storeVars, nUploads, histVars,
                 quota>>

\* UploadComponent.tsx:115  the timer <<execution, component generation>> runs:
\* setUploadStatus('')
TimerFire(xid) ==
  /\ xid \in timers
  /\ timers' = timers \ {xid}
  /\ uploadStatus' = IF Mounted /\ xid[2] = uploadGen THEN <<>> ELSE uploadStatus
  /\ UNCHANGED <<homeVars, fetchVars, storeVars, isUploading, selectedFile,
                 previewUrl, uploadGen, execs, nUploads, viewState,
                 histVars,
                 quota>>

\* ------------------------------------------------------------------- spec
Next ==
  \/ Mount
  \/ \E f \in fetches, err \in Answers : FetchServe(f, err)
  \/ \E f \in fetches : FetchResolve(f)
  \/ InsertEvent
  \/ \E c \in Coords : ExternalInsert(c)
  \/ TryAgain
  \/ \E object \in Pickable(reports) : LayerClick(object)
  \/ CloseModal
  \/ \E v \in ViewStates : ViewStateChange(v)
  \/ \E file \in Files \cup {NoFile} : handleFileSelect(file)
  \/ clearSelection
  \/ handleUpload
  \/ \E x \in execs, supported \in BOOLEAN, outcome \in GeoOutcomes :
       LocationSettle(x, supported, outcome)
  \/ \E x \in execs, uploadError \in Answers : StorageSettle(x, uploadError)
  \/ \E x \in execs, dbError \in Answers : InsertServe(x, dbError)
  \/ \E x \in execs : InsertSettle(x)
  \/ \E xid \in timers : TimerFire(xid)

Spec == Init /\ [][Next]_vars

\* ----------------------------------------------------------------- claims
\* C1 (as claimed): once the first fetch has been applied, and with no refresh or
\* retry issued, the collection is the events delivered so far, newest first,
\* followed by the fetched list L, however deliveries and the fetch's resolution
\* interleaved.
C1_OrderPreservation ==
  (mountFetch = "applied" /\ nUploads = 0 /\ nRetries = 0)
    => reports = Reverse(delivered) \o initialList

\* C2 (as claimed): every step keeps every element of the collection, unchanged.
C2_GrowOnly ==
  [][\A r \in Range(reports) : r \in Range(reports')]_vars

\* execution x is at the await named pc
At(x, pc) == x \in execs /\ x.pc = pc

\* execution x goes on in this step, to the await named pc
GoesOn(x, pc) == \E y \in execs' : y.xid = x.xid /\ y.pc = pc

\* execution x returns in this step
Returns(x) == x \in execs /\ \A y \in execs' : y.xid # x.xid

\* the photo of execution x is in the bucket
Stored(x, bucket) == [path |-> <<"photos", x.xid>>, file |-> x.file] \in bucket

\* the rows of tbl that carry the photo of execution x
RowsOf(x, tbl) ==
  { r \in Range(tbl) : r.photo_url = <<"public", "photos", x.xid>> }

\* the reasons getCurrentLocation rejects with
LocationErrors ==
  { <<"Geolocation is not supported by this browser">>,
    <<"Location access denied by user">>,
    <<"Location information is unavailable">>,
    <<"Location request timed out">>,
    <<"An unknown error occurred while retrieving location">> }

\* the steps of one execution come in the order location, upload, publicUrl,
\* insert, each issued when the one before has completed
C3_InOrder ==
  /\ \A y \in execs' :
       /\ \E n \in 1..4 :
            y.calls = SubSeq(<<"location", "upload", "publicUrl", "insert">>, 1, n)
       /\ "upload" \in Range(y.calls) => y.location \in Coords
       /\ "insert" \in Range(y.calls) => Stored(y, blobs')
  /\ \A x \in execs, y \in execs' :
       y.xid = x.xid =>
         /\ Len(x.calls) <= Len(y.calls)
         /\ y.file = x.file
  /\ blobs' # blobs =>
       \E x \in execs : /\ At(x, "storage") /\ GoesOn(x, "insert")
                        /\ blobs' = blobs \cup {[path |-> <<"photos", x.xid>>, file |-> x.file]}
  /\ \A r \in Range(table') \ Range(table) :
       r.photo_url # OtherUrl =>
         \E x \in execs : /\ At(x, "insert") /\ Stored(x, blobs)
                          /\ r.photo_url = <<"public", "photos", x.xid>>
                          /\ r.latitude = x.location.latitude
                          /\ r.longitude = x.location.longitude

\* a failed step ends the execution: nothing further is issued for it
C3_FailureAborts ==
  \A x \in execs :
    /\ (At(x, "location") /\ Returns(x)) =>
         /\ blobs' = blobs /\ table' = table /\ channel' = channel
         /\ ~Stored(x, blobs') /\ RowsOf(x, table') = {}
         /\ fetches' = fetches
    /\ (At(x, "storage") /\ Returns(x)) =>
         /\ blobs' = blobs /\ table' = table /\ channel' = channel
         /\ ~Stored(x, blobs') /\ RowsOf(x, table') = {}
         /\ fetches' = fetches
    /\ (At(x, "answered") /\ x.dbError # NoError /\ Returns(x)) =>
         /\ table' = table /\ channel' = channel /\ RowsOf(x, table') = {}
         /\ fetches' = fetches

\* the status displayed after a failed step is that step's error
C3_StatusShown ==
  \A x \in execs :
    /\ (At(x, "location") /\ Returns(x)) =>
         Mounted' /\ uploadStatus' \in LocationErrors
    /\ (At(x, "storage") /\ Returns(x)) =>
         Mounted' /\ \E m \in BackendMsgs : uploadStatus' = <<"Upload failed: ", m>>
    /\ (At(x, "answered") /\ x.dbError # NoError /\ Returns(x)) =>
         Mounted' /\ uploadStatus' = <<"Database error: ", x.dbError>>

\* C3 (as claimed): handleUpload issues location, upload, publicUrl and insert in
\* this order, each after the one before has completed; a failed step ends the
\* execution with nothing further issued (after a rejected getCurrentLocation: no
\* photo stored, no row inserted), and the status displayed is that step's error.
C3_UploadSequence ==
  [][C3_InOrder /\ C3_FailureAborts /\ C3_StatusShown]_vars

\* C3, for the executions whose UploadComponent is still mounted when the step
\* fails: the part of C3 the code keeps.
C3_WhileMounted ==
  [][/\ C3_InOrder
     /\ C3_FailureAborts
     /\ \A x \in execs :
          /\ (At(x, "location") /\ Returns(x) /\ Alive(x)) =>
               Mounted' /\ uploadStatus' \in LocationErrors
          /\ (At(x, "storage") /\ Returns(x) /\ Alive(x)) =>
               Mounted' /\ \E m \in BackendMsgs : uploadStatus' = <<"Upload failed: ", m>>
          /\ (At(x, "answered") /\ x.dbError # NoError /\ Returns(x) /\ Alive(x)) =>
               Mounted' /\ uploadStatus' = <<"Database error: ", x.dbError>>]_vars

\* execution x returns from the catch block after a rejected insert
InsertFailed(x) == At(x, "answered") /\ x.dbError # NoError /\ Returns(x)

\* what C4 says of a rejected insert, leaving out what is displayed
C4_NoRollback(x) ==
  /\ Stored(x, blobs) /\ blobs' = blobs
  /\ fetches' = fetches
  /\ table' = table /\ RowsOf(x, table') = {}
  /\ reports' = reports /\ RowsOf(x, reports') = {}

\* C4 (as claimed): when the photo is stored and the insert is then rejected, the
\* status displayed is the database error, the photo stays in the bucket, no
\* refresh is requested (onUploadSuccess is not called), the selected file is
\* kept and no row of this execution is in the table or in the collection.
C4_InsertFailure ==
  [][\A x \in execs :
       InsertFailed(x) =>
         /\ C4_NoRollback(x)
         /\ Mounted'
         /\ uploadStatus' = <<"Database error: ", x.dbError>>
         /\ selectedFile' = x.file]_vars

\* C4, for the executions whose UploadComponent is still mounted when the insert
\* fails: the part of C4 the code keeps.
C4_WhileMounted ==
  [][\A x \in execs :
       InsertFailed(x) =>
         /\ C4_NoRollback(x)
         /\ Alive(x) =>
              /\ Mounted'
              /\ uploadStatus' = <<"Database error: ", x.dbError>>
              /\ selectedFile' = x.file]_vars

\* a file handleFileSelect must accept: an image type, and at most 5 MiB
C5_Acceptable(file) ==
  /\ Len(file.type) >= 6
  /\ SubSeq(file.type, 1, 6) = <<"i", "m", "a", "g", "e", "/">>
  /\ file.size <= 5 * 1024 * 1024

C5_Messages ==
  { <<"Please select an image file">>, <<"File size must be less than 5MB">> }

\* C5: a file that is not an image or exceeds 5 MiB never becomes selectedFile
\* and is never the payload of a storage upload; the selection that rejects it
\* sets the inline message and leaves selectedFile, previewUrl, the collection
\* and the store as they were; an upload starts only from a selected, accepted
\* file.
C5_ValidationGating ==
  [][/\ selectedFile' # NoFile => C5_Acceptable(selectedFile')
     /\ \A y \in execs' : C5_Acceptable(y.file)
     /\ \A b \in blobs' : C5_Acceptable(b.file)
     /\ (uploadStatus' \in C5_Messages /\ uploadStatus' # uploadStatus) =>
          UNCHANGED <<selectedFile, previewUrl, isUploading, reports, table,
                      blobs, channel, execs, nUploads, fetches>>
     /\ nUploads' # nUploads =>
          /\ selectedFile # NoFile
          /\ \E y \in execs' \ execs : y.file = selectedFile]_vars

\* C5's case: from no selection, a file was rejected and nothing is selected
C5_Witness ==
  /\ uploadStatus = <<"Please select an image file">>
  /\ selectedFile = NoFile /\ previewUrl = NoFile
  /\ nUploads = 0 /\ blobs = {}

\* the phase of the top-level view (page.tsx:112-139)
Phase ==
  IF isLoading THEN "Loading" ELSE IF error # "" THEN "Error" ELSE "Ready"

\* C6 (as claimed): Loading from mount while the first fetch is in flight, then
\* Ready on its success and Error on its failure; Error lasts until Try Again,
\* and every Try Again re-enters Loading.
C6_ViewStateMachine ==
  [][/\ mountFetch' \in {"none", "pending"} => Phase' = "Loading"
     /\ (mountFetch = "pending" /\ mountFetch' = "applied") => Phase' = "Ready"
     /\ (mountFetch = "pending" /\ mountFetch' = "failed") => Phase' = "Error"
     /\ (Phase = "Error" /\ Phase' # "Error") => nRetries' # nRetries
     /\ nRetries' # nRetries => Phase' = "Loading"]_vars

\* the refresh requests handleUploadSuccess sends in this step
RefreshesIssued ==
  { f \in fetches' \ fetches : f.origin = "refresh" /\ f.phase = "sent" }

\* C7: onUploadSuccess (which requests one refresh) is called once in the step in
\* which an execution returns whose four steps all succeeded, after its row has
\* been committed, and in no other step.
C7_OnUploadSuccess ==
  [][LET notified == { x \in execs :
                         At(x, "answered") /\ x.dbError = NoError /\ Returns(x) }
     IN /\ Cardinality(RefreshesIssued) = Cardinality(notified)
        /\ \A x \in notified :
             /\ x.calls = <<"location", "upload", "publicUrl", "insert">>
             /\ x.location \in Coords
             /\ Stored(x, blobs)
             /\ Cardinality(RowsOf(x, table)) = 1]_vars

\* C7's case: an upload went through and its refresh is under way
C7_Witness ==
  /\ nUploads = 1 /\ execs = {}
  /\ uploadStatus = <<"Report submitted successfully!">>
  /\ \E f \in fetches : f.origin = "refresh"

\* the subscription handler prepends the oldest pending event in this step
HandlerStep ==
  /\ channel # <<>>
  /\ channel' = Tail(channel)
  /\ reports' = <<Head(channel)>> \o reports

\* C8 (as claimed): reports changes only in a step of the subscription handler
\* or in the resolution of the post-upload refresh (or of the mount fetch).
C8_OnlyHandlerAndRefresh ==
  [][reports' # reports =>
       \/ HandlerStep
       \/ \E f \in fetches : /\ f.phase = "served"
                             /\ f.origin \in {"mount", "refresh"}
                             /\ fetches' = fetches \ {f}]_vars

\* C8 (amended): reports changes only in a step of the subscription handler or
\* in the successful resolution of a fetchReports call, whichever of the mount
\* effect, the post-upload refresh or Try Again sent it.
C8_OnlyHandlerAndFetch ==
  [][reports' # reports =>
       \/ HandlerStep
       \/ \E f \in fetches : /\ f.phase = "served" /\ f.error = NoError
                             /\ fetches' = fetches \ {f}
                             /\ reports' = f.data]_vars

\* C8's case: the collection was filled by the fetch that Try Again sent
C8_Witness ==
  /\ nRetries = 1 /\ mountFetch = "failed" /\ nUploads = 0
  /\ delivered = <<>> /\ fetches = {}
  /\ reports # <<>>

\* C9 (as claimed): a failed list query, storage upload or insert ends in a
\* displayed message that carries the backend's message; nothing is retried, and
\* a failed list query leaves the collection as it was.
C9_FailuresSurfaced ==
  [][/\ \A f \in fetches :
          (f.phase = "served" /\ f.error # NoError /\ fetches' = fetches \ {f}) =>
            /\ error' = f.error
            /\ reports' = reports
     /\ \A x \in execs :
          /\ (At(x, "storage") /\ Returns(x)) =>
               /\ Mounted'
               /\ \E m \in BackendMsgs : uploadStatus' = <<"Upload failed: ", m>>
               /\ fetches' = fetches
          /\ InsertFailed(x) =>
               /\ Mounted'
               /\ uploadStatus' = <<"Database error: ", x.dbError>>
               /\ fetches' = fetches]_vars

\* C10: a click on the layer selects at most the one Report it hit, which is an
\* element of the collection, and opens the modal for it; a click that hits no
\* object selects nothing, and with an empty collection nothing can be picked.
C10_Pick ==
  [][/\ \A o \in Pickable(reports) :
          /\ Len(OnClick(o)) <= 1
          /\ o = NoReport => OnClick(o) = <<>>
     /\ (selectedReport' # selectedReport /\ selectedReport' # NoReport) =>
          Mounted /\ selectedReport' \in Range(reports) /\ isModalOpen'
     /\ (isModalOpen' /\ ~isModalOpen) => selectedReport' \in Range(reports)
     /\ reports = <<>> =>
          /\ selectedReport' \in {selectedReport, NoReport}
          /\ isModalOpen' => isModalOpen]_vars

\* C10's case: a click has picked a Report of the collection
C10_Witness == ModalShown /\ selectedReport \in Range(reports)

\* the executions of handleUpload that start in this step
Started == { y \in execs' : \A x \in execs : x.xid # y.xid }

\* what C11 says of the disabled controls and of the uploaded file: while
\* isUploading stays true nothing selects, clears or submits; an execution takes
\* the file selected when it starts, keeps it, and stores no other
C11_WhileUploading ==
  [][/\ (isUploading /\ isUploading') =>
          /\ selectedFile' = selectedFile
          /\ previewUrl' = previewUrl
          /\ Started = {}
     /\ isUploading => ~SubmitEnabled
     /\ \A y \in Started : y.file = selectedFile /\ y.file # NoFile
     /\ \A x \in execs, y \in execs' : x.xid = y.xid => y.file = x.file
     /\ \A b \in blobs' \ blobs :
          \E x \in execs : b = [path |-> FilePath(x.xid), file |-> x.file]]_vars

\* C11 (as claimed): while isUploading is true the submit control, the file
\* input and the clear control do nothing, so at most one execution of
\* handleUpload is in flight at any time, and the file it uploads is the file
\* that was selected when it started.
C11_OneUploadInFlight ==
  [][/\ (isUploading /\ isUploading') =>
          /\ selectedFile' = selectedFile
          /\ previewUrl' = previewUrl
          /\ Started = {}
     /\ isUploading => ~SubmitEnabled
     /\ Cardinality(execs') <= 1
     /\ \A y \in Started : y.file = selectedFile /\ y.file # NoFile
     /\ \A x \in execs, y \in execs' : x.xid = y.xid => y.file = x.file
     /\ \A b \in blobs' \ blobs :
          \E x \in execs : b = [path |-> FilePath(x.xid), file |-> x.file]]_vars

\* fixes the platform can report, beyond the one the uploads of a run get
Fixes == Coords \cup { [latitude |-> -33, longitude |-> 151] }

\* every answer of the platform to one request
AllOutcomes ==
  GeoOutcomes \cup { [kind |-> "position", coords |-> c, code |-> 0] : c \in Fixes }

\* the failure kind of a call: capability unsupported, permission denied,
\* position unavailable, timed out, unknown error; "none" for a fix
FailureKind(supported, outcome) ==
  IF ~supported THEN "unsupported"
  ELSE IF outcome.kind = "position" THEN "none"
  ELSE CASE outcome.code = 1 -> "denied"
         [] outcome.code = 2 -> "unavailable"
         [] outcome.code = 3 -> "timeout"
         [] OTHER -> "unknown"

\* the calls getCurrentLocation can be made in
GeoCalls == BOOLEAN \X AllOutcomes

\* C12: a call of getCurrentLocation makes at most one position request and
\* settles its promise exactly once: with the coordinates of the fix, or with a
\* reason that tells the failure kind, the five kinds having five different
\* reasons; and the execution that awaited it goes on with that fix or returns
\* showing that reason, never both.
C12_SettlesOnce ==
  [][\A x \in execs :
       (At(x, "location") /\ ~GoesOn(x, "location")) =>
         /\ \A g \in GeoCalls :
              LET calls == PromiseCalls(g[1], g[2])
                  res == getCurrentLocation(g[1], g[2])
              IN /\ PositionRequests(g[1]) <= 1
                 /\ Len(calls) = 1
                 /\ res.ok <=> FailureKind(g[1], g[2]) = "none"
                 /\ res.ok => res.coords = g[2].coords /\ res.message = ""
                 /\ ~res.ok => <<res.message>> \in LocationErrors
         /\ \A g, h \in GeoCalls :
              LET a == getCurrentLocation(g[1], g[2])
                  b == getCurrentLocation(h[1], h[2])
              IN (~a.ok /\ ~b.ok) =>
                   (a.message = b.message <=>
                      FailureKind(g[1], g[2]) = FailureKind(h[1], h[2]))
         /\ Cardinality({ getCurrentLocation(g[1], g[2]).message :
                           g \in { k \in GeoCalls :
                                     FailureKind(k[1], k[2]) # "none" } }) = 5
         /\ \/ /\ \E y \in execs' : /\ y.xid = x.xid /\ y.pc = "storage"
                                      /\ y.location \in Coords
                                      /\ y.calls = <<"location", "upload">>
                /\ ~Returns(x)
            \/ /\ Returns(x)
                /\ blobs' = blobs /\ table' = table
                /\ Alive(x) => (uploadStatus' \in LocationErrors /\ ~isUploading')]_vars

\* C12's case: an upload of the mounted panel ended with the platform's timeout
C12_Witness ==
  /\ nUploads = 1 /\ execs = {} /\ Mounted /\ blobs = {}
  /\ uploadStatus = <<"Location request timed out">>

\* a step that is a pan or zoom gesture: the camera moves and nothing else does
GestureStep ==
  /\ Mounted /\ Mounted'
  /\ viewState' \in ViewStates
  /\ UNCHANGED <<homeVars, fetchVars, storeVars, uploadVars, execVars, histVars>>

\* what C13 says, for the steps that keep the map mounted
C13_WhileMounted ==
  /\ viewState = INITIAL_VIEW_STATE
  /\ [][/\ (~Mounted /\ Mounted') => viewState' = INITIAL_VIEW_STATE
        /\ (Mounted /\ Mounted' /\ viewState' # viewState) => GestureStep]_vars

\* C13 (as claimed): the camera starts at INITIAL_VIEW_STATE whatever the
\* reports are, and then changes in gesture steps only: no insert event, fetch
\* or refresh result, upload, pick or modal action changes or resets it.
C13_CameraOnlyByGesture ==
  /\ viewState = INITIAL_VIEW_STATE
  /\ [][/\ (~Mounted /\ Mounted') => viewState' = INITIAL_VIEW_STATE
        /\ viewState' # viewState => GestureStep]_vars

\* no list query is in flight and no insert event is pending
Quiet == subscribed /\ fetches = {} /\ channel = <<>>

\* C14 (as claimed): the feed hands every insert committed since the mount to
\* the handler exactly once; once no fetch is in flight and no event is pending,
\* the collection holds every one of those Reports, however fetches and
\* deliveries interleaved.
C14_NoLostReport ==
  Quiet => \A r \in Range(delivered) : r \in Range(reports)

\* C15 (as claimed): with every insert delivered once and every stored row
\* listed once, no Report id occurs twice in the collection, also when the
\* refresh after the user's own upload and the insert event of its row both
\* arrive.
C15_NoDuplicates ==
  \A i, j \in 1..Len(reports) : reports[i].id = reports[j].id => i = j

\* a step of handleReportClick: a Report of the collection is selected and the
\* modal opened, nothing else changes
PickStep ==
  /\ Mounted
  /\ selectedReport' \in Range(reports) /\ isModalOpen'
  /\ UNCHANGED <<reports, isLoading, error, subscribed, fetchVars, storeVars,
                 uploadVars, execVars, viewState, histVars>>

\* a step of closeModal: both are cleared, nothing else changes
CloseStep ==
  /\ ModalShown
  /\ selectedReport' = NoReport /\ ~isModalOpen'
  /\ UNCHANGED <<reports, isLoading, error, subscribed, fetchVars, storeVars,
                 uploadVars, execVars, viewState, histVars>>

\* C16: isModalOpen holds exactly when a Report is selected; only
\* handleReportClick and closeModal change either of the two; and the modal is
\* rendered exactly when a Report is selected and the main view is shown.
C16_ModalIffSelected ==
  /\ isModalOpen <=> selectedReport # NoReport
  /\ [][/\ isModalOpen' <=> selectedReport' # NoReport
        /\ ModalShown' <=> (selectedReport' # NoReport /\ Mounted')
        /\ <<selectedReport, isModalOpen>>' # <<selectedReport, isModalOpen>> =>
             (PickStep \/ CloseStep)]_vars

\* C16's case: a Report was picked, and events, an upload and a failed refresh
\* went by with the modal open
C16_Witness ==
  /\ isModalOpen /\ selectedReport # NoReport
  /\ delivered # <<>> /\ nUploads = 1 /\ execs = {}
  /\ error # "" /\ fetches = {}

\* ------------------------------------------------------------- fair runs
\* the quota of the fair runs: one row, one upload, one retry
LiveQuota == [rows |-> 1, uploads |-> 1, retries |-> 1]

InitLive == InitWith(LiveQuota)

\* every external call is answered (the list query, the position request, the
\* storage upload, the insert), the event loop runs every continuation, and React
\* runs the effect of Home
Fairness ==
  /\ WF_vars(Mount)
  /\ WF_vars(\E f \in fetches, err \in Answers : FetchServe(f, err))
  /\ WF_vars(\E f \in fetches : FetchResolve(f))
  /\ WF_vars(\E x \in execs, supported \in BOOLEAN, outcome \in GeoOutcomes :
               LocationSettle(x, supported, outcome))
  /\ WF_vars(\E x \in execs, uploadError \in Answers : StorageSettle(x, uploadError))
  /\ WF_vars(\E x \in execs, dbError \in Answers : InsertServe(x, dbError))
  /\ WF_vars(\E x \in execs : InsertSettle(x))

LiveSpec == InitLive /\ [][Next]_vars /\ Fairness

\* C17: when every external call is answered, isLoading and isUploading do not
\* stay true: every fetch and every upload that started comes to its end, after
\* which isLoading is false and the panel that started the upload is not
\* uploading, whether the steps succeeded or failed.
C17_BusyFlagsClear ==
  /\ isLoading ~> ~isLoading
  /\ isUploading ~> ~isUploading
  /\ (fetches # {}) ~> (fetches = {} /\ ~isLoading)
  /\ (execs # {}) ~> (execs = {} /\ ~isUploading)
  /\ [][/\ \A f \in fetches :
             (f.phase = "served" /\ fetches' = fetches \ {f}) => ~isLoading'
        /\ \A x \in execs : (Returns(x) /\ Alive(x)) => ~isUploading']_vars

\* C17's case: an upload whose insert was rejected has ended, after a first
\* fetch that failed and a retry, and both flags are down
C17_Witness ==
  /\ nUploads = 1 /\ execs = {} /\ ~isUploading
  /\ \E m \in BackendMsgs : uploadStatus = <<"Database error: ", m>>
  /\ mountFetch = "failed" /\ nRetries = 1 /\ fetches = {} /\ ~isLoading
====
